---------------------------- MODULE Spec2Model ----------------------------
(***************************************************************************)
(* A model of the currency-rates database API (main.py, handlers.py,       *)
(* schemas.py, botocore_client.py): the rate store, the object-storage     *)
(* bucket, and the request handlers POST / GET / DELETE /currency-rates    *)
(* and GET /currency-rates/latest as cooperating coroutines that interleave*)
(* at their await points.                                                  *)
(*                                                                         *)
(* A stored row keeps the columns the handlers read: id, letter_code, date *)
(* and exchange_rate.  The other columns of models.CurrencyRate            *)
(* (digital_code, units, currency_name, timestamp, source) are carried     *)
(* through unchanged by every handler and are left out.                    *)
(*                                                                         *)
(* An optional Python value (X | None) is a set with at most one element:  *)
(* None is {} and a value x is {x}.  A string that the code parses or      *)
(* formats is a sequence of one-character strings.  A date is the number   *)
(* year*10000 + month*100 + day, which orders as the calendar does.        *)
(***************************************************************************)
EXTENDS Integers, Sequences, FiniteSets, TLC

\* ------------------------------------------------------------------ bounds
\* Number of HTTP requests of a run; all of them may be in flight at once.
MaxReqs == 2
\* Most rows of a store drawn for the query specification.
MaxStoreRows == 3

\* ------------------------------------------------------- optional values
None == {}

Some(x) == {x}

The(o) == CHOOSE x \in o : TRUE

\* ------------------------------------------------------------- sequences
Range(s) == { s[i] : i \in 1..Len(s) }

\* All orderings of the finite set S.
RECURSIVE Perms(_)
Perms(S) ==
    IF S = {} THEN { <<>> }
    ELSE UNION { { <<x>> \o t : t \in Perms(S \ {x}) } : x \in S }

\* ----------------------------------------------------------------- dates
DigitChars == <<"0", "1", "2", "3", "4", "5", "6", "7", "8", "9">>

IsDigit(c) == \E d \in 1..10 : DigitChars[d] = c

DigitOf(c) == (CHOOSE d \in 1..10 : DigitChars[d] = c) - 1

\* The number a string of digits denotes.
RECURSIVE Num(_)
Num(s) == IF s = <<>> THEN 0
          ELSE 10 * Num(SubSeq(s, 1, Len(s) - 1)) + DigitOf(s[Len(s)])

AllDigits(s) == \A i \in 1..Len(s) : IsDigit(s[i])

IsLeap(y) == (y % 4 = 0 /\ y % 100 # 0) \/ y % 400 = 0

DaysInMonth(y, m) ==
    IF m = 2 THEN (IF IsLeap(y) THEN 29 ELSE 28)
    ELSE IF m \in {4, 6, 9, 11} THEN 30 ELSE 31

\* datetime.date(y, m, d) is defined exactly for these.
ValidYMD(y, m, d) == y \in 1..9999 /\ m \in 1..12 /\ d \in 1..DaysInMonth(y, m)

MkDate(y, m, d) == y * 10000 + m * 100 + d

\* The value of a failed parse (datetime.strptime raises ValueError).
ValueError == -1

\* datetime.strptime(s, "%Y%m%d").date() for a string s of eight characters
\* (two digits for the month and two for the day).
strptime_Ymd(s) ==
    IF ~AllDigits(s) THEN ValueError
    ELSE LET y == Num(SubSeq(s, 1, 4))
             m == Num(SubSeq(s, 5, 6))
             d == Num(SubSeq(s, 7, 8))
         IN IF ValidYMD(y, m, d) THEN MkDate(y, m, d) ELSE ValueError

\* datetime.strptime(s, "%d.%m.%Y").date() for a string s of ten characters.
strptime_dmY(s) ==
    IF ~(s[3] = "." /\ s[6] = "."
         /\ AllDigits(SubSeq(s, 1, 2)) /\ AllDigits(SubSeq(s, 4, 5))
         /\ AllDigits(SubSeq(s, 7, 10)))
    THEN ValueError
    ELSE LET d == Num(SubSeq(s, 1, 2))
             m == Num(SubSeq(s, 4, 5))
             y == Num(SubSeq(s, 7, 10))
         IN IF ValidYMD(y, m, d) THEN MkDate(y, m, d) ELSE ValueError

\* n written with w digits, zero-padded.
RECURSIVE Digits(_, _)
Digits(n, w) == IF w = 0 THEN <<>>
                ELSE Append(Digits(n \div 10, w - 1), DigitChars[(n % 10) + 1])

\* date.strftime("%Y-%m-%d") and date.isoformat().
strftime_Y_m_d(dt) ==
    Digits(dt \div 10000, 4) \o <<"-">> \o Digits((dt \div 100) % 100, 2)
        \o <<"-">> \o Digits(dt % 100, 2)


\* ------------------------------------------------------------ schemas.py
\* The handler classes of handlers.py, each with its extension and MIME type.
CSVMaker == [extension |-> "csv", content_type |-> "text/csv"]

JSONMaker == [extension |-> "json", content_type |-> "application/json"]

ParquetMaker ==
    [extension |-> "parquet", content_type |-> "application/vnd.apache.parquet"]

XlsxMaker ==
    [extension |-> "xlsx",
     content_type |->
        "application/vnd.openxmlformats-officedocument.spreadsheetml.sheet"]

Makers == {CSVMaker, JSONMaker, ParquetMaker, XlsxMaker}

\* {obj.extension: obj for every class of handlers named *Maker}.
available_output_formats ==
    [e \in { m.extension : m \in Makers } |->
        CHOOSE m \in Makers : m.extension = e]

\* Request.handle_dates on a query parameter (None or a string).
handle_dates(value) ==
    IF value = None THEN None ELSE Some(strptime_Ymd(The(value)))

\* Request.handle_dates on a date of a request echoed into a Response.
handle_dates_response(value) ==
    IF value = None THEN None ELSE Some(strftime_Y_m_d(The(value)))

\* Whether pydantic accepts the query parameters (else 422, handler not run).
RequestValid(startDate, endDate, outputFormat) ==
    /\ handle_dates(startDate) # Some(ValueError)
    /\ handle_dates(endDate) # Some(ValueError)
    /\ outputFormat = None \/ The(outputFormat) \in DOMAIN available_output_formats

\* Request(startDate=, endDate=, outputFormat=, isBackup=) with the defaults
\* of the fields that are absent.
Request(startDate, endDate, outputFormat, isBackup) ==
    [startDate    |-> handle_dates(startDate),
     endDate      |-> handle_dates(endDate),
     outputFormat |-> IF outputFormat = None THEN "parquet" ELSE The(outputFormat),
     isBackup     |-> IF isBackup = None THEN FALSE ELSE The(isBackup)]

\* Response with the comment "No results" whatever it is given.
Response_commented(r, url, comment) ==
    [startDate    |-> handle_dates_response(r.startDate),
     endDate      |-> handle_dates_response(r.endDate),
     outputFormat |-> r.outputFormat,
     url          |-> url,
     comment      |-> Some("No results")]

\* Response(**r.model_dump(), url=, comment=): isBackup is excluded from the dump.
Response(r, url, comment) ==
    [startDate    |-> handle_dates_response(r.startDate),
     endDate      |-> handle_dates_response(r.endDate),
     outputFormat |-> r.outputFormat,
     url          |-> url,
     comment      |-> comment]

\* schemas.CurrencyRate.handle_date: whether a submission validates.
RateValid(rate) == strptime_dmY(rate.date) # ValueError

\* models.CurrencyRate(**rate.model_dump()): a row that has no id yet.
NewRate(rate) ==
    [letter_code   |-> rate.letter_code,
     date          |-> strptime_dmY(rate.date),
     exchange_rate |-> rate.exchange_rate]

\* main.backup_request = Request(isBackup=True).
backup_request == Request(None, None, None, Some(TRUE))

\* -------------------------------------------------------------- queries
\* Letter codes in alphabetical order (the ORDER BY of a string column).
LetterCodes == <<"EUR", "USD">>

CodeRank(c) == CHOOSE i \in 1..Len(LetterCodes) : LetterCodes[i] = c

\* Matching with operator.gt and operator.lt: the bounds themselves left out.
Matching_exclusive(S, r) ==
    { row \in S :
        /\ r.startDate # None => row.date > The(r.startDate)
        /\ r.endDate # None => row.date < The(r.endDate) }

\* WHERE date >= startDate AND date <= endDate, a clause only for a bound that
\* is truthy (not None).
Matching(S, r) ==
    { row \in S :
        /\ r.startDate # None => row.date >= The(r.startDate)
        /\ r.endDate # None => row.date <= The(r.endDate) }

\* row a is not after row b under ORDER BY date, letter_code.
OrderedBefore(a, b) ==
    \/ a.date < b.date
    \/ a.date = b.date /\ CodeRank(a.letter_code) <= CodeRank(b.letter_code)

\* The orderings of the rows S that ORDER BY date, letter_code allows: a row
\* that no other row must precede comes first, then the rest likewise.
RECURSIVE OrderBy(_)
OrderBy(S) ==
    IF S = {} THEN { <<>> }
    ELSE UNION { { <<x>> \o t : t \in OrderBy(S \ {x}) } :
                 x \in { y \in S : \A z \in S : OrderedBefore(y, z) } }

\* The lists select(CurrencyRate).where(*clauses).order_by(date, letter_code)
\* may return: rows equal in both sort keys come in any order.
SelectRates(S, r) == OrderBy(Matching(S, r))

\* DeleteRates that deletes the first id of the list alone.
DeleteRates_first(S, delete_ids) ==
    { row \in S : delete_ids = <<>> \/ row.id # delete_ids[1] }

\* DELETE FROM currency_rates WHERE id IN delete_ids.
DeleteRates(S, delete_ids) == { row \in S : row.id \notin Range(delete_ids) }

\* InsertRates without the commit: the rows are lost when the session closes.
InsertRates_lost(S, rates, firstId) == S

\* session.add_all(rates); commit: the rows get the next ids in list order.
InsertRates(S, rates, firstId) ==
    S \cup { [id            |-> firstId + i - 1,
              letter_code   |-> rates[i].letter_code,
              date          |-> rates[i].date,
              exchange_rate |-> rates[i].exchange_rate] : i \in 1..Len(rates) }

StoredCodes(S) == { row.letter_code : row \in S }

\* The rows of code c that ORDER BY letter_code, date DESC may put first.
FirstByDateDesc(S, c) ==
    { row \in S : /\ row.letter_code = c
                  /\ \A o \in S : o.letter_code = c => o.date <= row.date }

\* The results the subquery SELECT DISTINCT ON (letter_code) letter_code, date,
\* exchange_rate ... ORDER BY letter_code, date DESC may have: per code the
\* three columns of one of the rows that come first.
LatestSubqueries(S) ==
    { { [letter_code   |-> f[c].letter_code,
         date          |-> f[c].date,
         exchange_rate |-> f[c].exchange_rate] : c \in StoredCodes(S) } :
      f \in { g \in [StoredCodes(S) -> S] :
                \A c \in StoredCodes(S) : g[c] \in FirstByDateDesc(S, c) } }

\* select(CurrencyRate).join(subquery, code = code & date = date & rate = rate),
\* with WHERE letter_code IN currency_codes when the list is given and not empty.
LatestJoin(S, sub, currency_codes) ==
    { row \in S :
        /\ \E t \in sub : /\ row.letter_code = t.letter_code
                          /\ row.date = t.date
                          /\ row.exchange_rate = t.exchange_rate
        /\ (currency_codes # None /\ The(currency_codes) # <<>>)
              => row.letter_code \in Range(The(currency_codes)) }

\* One entry of the "rates" array of the response.
RateDict(row) ==
    [letter_code   |-> row.letter_code,
     exchange_rate |-> row.exchange_rate,
     date          |-> strftime_Y_m_d(row.date)]

\* The "rates" arrays get_latest_rates may return (the join's rows in any order).
LatestRates(S, currency_codes) ==
    UNION { { [i \in 1..Len(s) |-> RateDict(s[i])] :
                s \in Perms(LatestJoin(S, sub, currency_codes)) } :
            sub \in LatestSubqueries(S) }

\* ------------------------------------------------------------ handlers.py
\* The name of a storage key before the extension: the fixed backup name, or
\* str(uuid4()) with the uuid given by its serial number.
BackupName == <<"currency_rates_db_backup", 0>>

UuidName(u) == <<"uuid4", u>>

\* key with one name for every export that is not a backup.
key_reused(is_backup, u, handler_class) ==
    <<IF is_backup THEN BackupName ELSE UuidName(1), handler_class.extension>>

\* ScalarsHandler.key: f"{name}.{extension}".  uuid4() is called only for an
\* export that is not a backup.
key(is_backup, u, handler_class) ==
    <<IF is_backup THEN BackupName ELSE UuidName(u), handler_class.extension>>

\* ScalarsHandler.__init__: the dataframe of the scalars, rows in list order.
DataFrame(scalars) == scalars

\* The body of a handler: the dataframe written in the handler's format.
body(handler_class, df) == [format |-> handler_class.extension, rows |-> df]

\* client.put_object(Bucket=, Key=, Body=, ContentType=) on the bucket b.
put_object(b, k, bd, ct) ==
    [x \in DOMAIN b \cup {k} |->
        IF x = k THEN [Body |-> bd, ContentType |-> ct] ELSE b[x]]

\* client.generate_presigned_url("get_object", Params={Bucket, Key}).
generate_presigned_url(k) == <<"presigned", k>>

\* Shortener().shorten(url): a short link registered for the long one.
shorten(url) == <<"short", url>>


\* ------------------------------------------------------------------ state
VARIABLES
    store,        \* the rows of the table currency_rates
    nextId,       \* the next value of the autoincrement id
    S3_ENABLED,   \* botocore_client.S3_ENABLED, fixed when the process starts
    bucket,       \* the objects of the bucket OBS_BUCKET, by key
    uuids,        \* the serial numbers of the uuids uuid4() has returned
    links,        \* the long urls the link shortener has registered
    deleted,      \* history: the rows the DELETE requests have removed
    req,          \* the requests: one record per slot
    result        \* the result of the query applied to a drawn store

vars == <<store, nextId, S3_ENABLED, bucket, uuids, links, deleted, req, result>>

Slots == 1..MaxReqs

\* The uuids uuid4() can draw, by serial number: one for every request.
Uuids == 1..MaxReqs

\* env("API_TOKEN", "default_token_for_development").
expected_token == "default_token_for_development"

\* A slot no request has arrived on.
NoRequest ==
    [kind       |-> "none",   \* the route: POST, GET, DELETE, LATEST
     pc         |-> "idle",   \* where the handler's coroutine stands
     status     |-> 0,        \* the HTTP status sent, 0 while none is
     r          |-> backup_request,  \* the Request get_currency_rates runs on
     rates      |-> <<>>,     \* POST: the rows to add
     delete_ids |-> <<>>,     \* DELETE: the ids to delete
     scalars    |-> <<>>,     \* the rows the select returned
     key        |-> None,     \* the handler's cached key
     resp       |-> None,     \* the Response model returned, if one is
     latest     |-> <<>>]     \* LATEST: the "rates" array returned

\* The requests arrive in the order of their slots.
Arrives(p) ==
    /\ req[p].kind = "none"
    /\ \A q \in Slots : q < p => req[q].kind # "none"

At(p, kind, pc) == req[p].kind \in kind /\ req[p].pc = pc

\* The status of a handler that returned: the route's status_code, or that of
\* the fastapi.Response the GET handler built.
Returned(kind) == IF kind = "POST" THEN 201 ELSE IF kind = "DELETE" THEN 204 ELSE 200

\* get_async_client: the client handed to a handler, None when S3 is disabled.
get_async_client == IF S3_ENABLED THEN Some("client") ELSE None

\* uuid4(): a uuid it has not returned before.  Which one does not matter to
\* any handler, so the least unused serial number stands for them all.  None
\* is drawn for a backup, whose key does not call uuid4.
NewUuids(is_backup) ==
    IF is_backup THEN {0}
    ELSE { u \in Uuids \ uuids : \A v \in Uuids \ uuids : u <= v }

\* --------------------------------------------------------------- inputs
Str_20240101 == <<"2", "0", "2", "4", "0", "1", "0", "1">>

Str_20240131 == <<"2", "0", "2", "4", "0", "1", "3", "1">>

Str_20241301 == <<"2", "0", "2", "4", "1", "3", "0", "1">>

Str_01_01_2024 == <<"0", "1", ".", "0", "1", ".", "2", "0", "2", "4">>

Str_31_01_2024 == <<"3", "1", ".", "0", "1", ".", "2", "0", "2", "4">>

Str_31_02_2024 == <<"3", "1", ".", "0", "2", ".", "2", "0", "2", "4">>

\* The API-Token headers sent.
Tokens == {expected_token, "wrong"}

\* The rate submissions sent (the last one has no valid date).
UsdJan01 == [letter_code |-> "USD", exchange_rate |-> 75, date |-> Str_01_01_2024]

EurJan31 == [letter_code |-> "EUR", exchange_rate |-> 80, date |-> Str_31_01_2024]

UsdFeb31 == [letter_code |-> "USD", exchange_rate |-> 75, date |-> Str_31_02_2024]

\* The bodies sent to POST /currency-rates.
Bodies == { <<EurJan31>>, <<UsdFeb31>> }

\* The bodies sent to DELETE /currency-rates.
DeleteLists == { <<1>>, <<2, 1>> }

\* The query strings sent to GET /currency-rates: everything; the 31st alone, as
\* csv; a client that sets isBackup, from the 31st; a month that does not exist.
Queries ==
    { [startDate |-> None, endDate |-> None,
       outputFormat |-> None, isBackup |-> None],
      [startDate |-> Some(Str_20240131), endDate |-> Some(Str_20240131),
       outputFormat |-> Some("csv"), isBackup |-> None],
      [startDate |-> Some(Str_20240131), endDate |-> None,
       outputFormat |-> None, isBackup |-> Some(TRUE)],
      [startDate |-> None, endDate |-> Some(Str_20241301),
       outputFormat |-> None, isBackup |-> None] }

\* The currency_codes sent to GET /currency-rates/latest.
CurrencyCodes == {None, Some(<<"USD">>)}

\* The contents of the table when the process starts (create_all_tables keeps
\* the rows of earlier runs).
InitialStores ==
    { {},
      { [id |-> 1, letter_code |-> "USD", date |-> 20240101, exchange_rate |-> 75] } }

\* ------------------------------------------------------------------ init
Init ==
    /\ store \in InitialStores
    /\ nextId = Cardinality(store) + 1
    /\ S3_ENABLED \in BOOLEAN
    /\ bucket = <<>>
    /\ uuids = {}
    /\ links = {}
    /\ deleted = {}
    /\ req = [p \in Slots |-> NoRequest]
    /\ result = [op |-> "none"]

\* ------------------------------------------------- POST /currency-rates
\* api_token and the validation of the body, up to the first await.
PostStart(p) ==
    /\ Arrives(p)
    /\ \E token \in Tokens, rates \in Bodies :
         /\ req' = [req EXCEPT ![p] =
              IF token # expected_token
              THEN [NoRequest EXCEPT !.kind = "POST", !.pc = "done", !.status = 403]
              ELSE IF \E i \in 1..Len(rates) : ~RateValid(rates[i])
              THEN [NoRequest EXCEPT !.kind = "POST", !.pc = "done", !.status = 422]
              ELSE [NoRequest EXCEPT !.kind = "POST", !.pc = "commit",
                      !.rates = [i \in 1..Len(rates) |-> NewRate(rates[i])]]]
    /\ UNCHANGED <<store, nextId, S3_ENABLED, bucket, uuids, links, deleted, result>>

\* session.add_all(rates); await session.commit(); then the call of
\* get_currency_rates(backup_request, session, client).
PostCommit(p) ==
    /\ At(p, {"POST"}, "commit")
    /\ store' = InsertRates(store, req[p].rates, nextId)
    /\ nextId' = nextId + Len(req[p].rates)
    /\ req' = [req EXCEPT ![p].pc = "select", ![p].r = backup_request]
    /\ UNCHANGED <<S3_ENABLED, bucket, uuids, links, deleted, result>>

\* ----------------------------------------------- DELETE /currency-rates
DeleteStart(p) ==
    /\ Arrives(p)
    /\ \E token \in Tokens, delete_ids \in DeleteLists :
         req' = [req EXCEPT ![p] =
              IF token # expected_token
              THEN [NoRequest EXCEPT !.kind = "DELETE", !.pc = "done", !.status = 403]
              ELSE [NoRequest EXCEPT !.kind = "DELETE", !.pc = "commit",
                      !.delete_ids = delete_ids]]
    /\ UNCHANGED <<store, nextId, S3_ENABLED, bucket, uuids, links, deleted, result>>

\* await session.execute(delete ...); await session.commit(); then the call of
\* get_currency_rates(backup_request, session, client).
DeleteCommit(p) ==
    /\ At(p, {"DELETE"}, "commit")
    /\ store' = DeleteRates(store, req[p].delete_ids)
    /\ deleted' = deleted \cup (store \ store')
    /\ req' = [req EXCEPT ![p].pc = "select", ![p].r = backup_request]
    /\ UNCHANGED <<nextId, S3_ENABLED, bucket, uuids, links, result>>

\* -------------------------------------------------- GET /currency-rates
\* The query parameters validated into r: Annotated[Request, Query()].
GetStart(p) ==
    /\ Arrives(p)
    /\ \E q \in Queries :
         req' = [req EXCEPT ![p] =
              IF ~RequestValid(q.startDate, q.endDate, q.outputFormat)
              THEN [NoRequest EXCEPT !.kind = "GET", !.pc = "done", !.status = 422]
              ELSE [NoRequest EXCEPT !.kind = "GET", !.pc = "select",
                      !.r = Request(q.startDate, q.endDate, q.outputFormat,
                                    q.isBackup)]]
    /\ UNCHANGED <<store, nextId, S3_ENABLED, bucket, uuids, links, deleted, result>>

\* get_currency_rates up to its second await: the select, and the response
\* "No results" when it returns no row.
Select(p) ==
    /\ At(p, {"POST", "GET", "DELETE"}, "select")
    /\ \E scalars \in SelectRates(store, req[p].r) :
         LET q == req[p]
         IN req' = [req EXCEPT ![p] =
              IF scalars = <<>>
              THEN [q EXCEPT !.pc = "done", !.status = Returned(q.kind),
                      !.resp = IF q.kind = "GET"
                               THEN Some(Response(q.r, None, Some("No results")))
                               ELSE None]
              ELSE [q EXCEPT !.pc = "upload", !.scalars = scalars]]
    /\ UNCHANGED <<store, nextId, S3_ENABLED, bucket, uuids, links, deleted, result>>

\* AfterUpload without the test of r.isBackup: every export goes on to
\* generate_url().
AfterUpload_linked(q, k) == [q EXCEPT !.pc = "url", !.key = Some(k)]

\* get_currency_rates after upload_contents() has returned, for the request q
\* whose handler has the key k: a backup ends here (the 204 of the GET route,
\* or the caller's own status), another export goes on to generate_url().
AfterUpload(q, k) ==
    IF q.r.isBackup
    THEN [q EXCEPT !.pc = "done", !.key = Some(k),
            !.status = IF q.kind = "GET" THEN 204 ELSE Returned(q.kind)]
    ELSE [q EXCEPT !.pc = "url", !.key = Some(k)]

\* handler = handler_class(scalars, client, r.isBackup); handler.upload_contents()
\* with a put_object that succeeds; then the 204 of a backup.
Upload(p) ==
    /\ At(p, {"POST", "GET", "DELETE"}, "upload")
    /\ get_async_client # None
    /\ \E u \in NewUuids(req[p].r.isBackup) :
         LET q == req[p]
             handler_class == available_output_formats[q.r.outputFormat]
             k == key(q.r.isBackup, u, handler_class)
             bd == body(handler_class, DataFrame(req[p].scalars))
         IN /\ bucket' = put_object(bucket, k, bd, handler_class.content_type)
            /\ uuids' = IF req[p].r.isBackup THEN uuids ELSE uuids \cup {u}
            /\ req' = [req EXCEPT ![p] = AfterUpload(q, k)]
    /\ UNCHANGED <<store, nextId, S3_ENABLED, links, deleted, result>>

\* handler.upload_contents() raising: self.client is None (AttributeError on
\* self.client.put_object, before the key is computed), or put_object fails.
UploadRaises(p) ==
    /\ At(p, {"POST", "GET", "DELETE"}, "upload")
    /\ \/ /\ get_async_client = None
          /\ req' = [req EXCEPT ![p].pc = "done", ![p].status = 500]
          /\ uuids' = uuids
       \/ /\ get_async_client # None
          /\ \E u \in NewUuids(req[p].r.isBackup) :
               LET handler_class == available_output_formats[req[p].r.outputFormat]
                   k == key(req[p].r.isBackup, u, handler_class)
               IN /\ uuids' = IF req[p].r.isBackup THEN uuids ELSE uuids \cup {u}
                  /\ req' = [req EXCEPT ![p].pc = "done", ![p].status = 500,
                                        ![p].key = Some(k)]
    /\ UNCHANGED <<store, nextId, S3_ENABLED, bucket, links, deleted, result>>

\* handler.generate_url(): the presigned url, shortened, returned in a Response;
\* or the shortener raising.
GenerateUrl(p) ==
    /\ At(p, {"GET"}, "url")
    /\ LET url == generate_presigned_url(The(req[p].key))
       IN \/ /\ links' = links \cup {url}
             /\ req' = [req EXCEPT ![p].pc = "done", ![p].status = 200,
                          ![p].resp = Some(Response(req[p].r, Some(shorten(url)), None))]
          \/ /\ links' = links
             /\ req' = [req EXCEPT ![p].pc = "done", ![p].status = 500]
    /\ UNCHANGED <<store, nextId, S3_ENABLED, bucket, uuids, deleted, result>>

\* ------------------------------------------- GET /currency-rates/latest
Latest(p) ==
    /\ Arrives(p)
    /\ \E currency_codes \in CurrencyCodes :
         \E rates \in LatestRates(store, currency_codes) :
            req' = [req EXCEPT ![p] =
               [NoRequest EXCEPT !.kind = "LATEST", !.pc = "done", !.status = 200,
                                 !.latest = rates]]
    /\ UNCHANGED <<store, nextId, S3_ENABLED, bucket, uuids, links, deleted, result>>

\* ------------------------------------------------------------------ spec
Next ==
    \E p \in Slots :
        \/ PostStart(p)
        \/ PostCommit(p)
        \/ DeleteStart(p)
        \/ DeleteCommit(p)
        \/ GetStart(p)
        \/ Select(p)
        \/ Upload(p)
        \/ UploadRaises(p)
        \/ GenerateUrl(p)
        \/ Latest(p)

Spec == Init /\ [][Next]_vars

\* ------------------------------------------------- the queries, applied
\* The dates, codes and rates of the rows of a drawn store.
RowDates == {20231231, 20240101, 20240201}

RowRates == {75, 80}

RowValues ==
    [letter_code : Range(LetterCodes), date : RowDates, exchange_rate : RowRates]

\* The stores of at most MaxStoreRows rows, with the ids 1, 2, ... as the
\* autoincrement counter hands them out.
DrawnStores ==
    UNION { { { [id            |-> i,
                 letter_code   |-> f[i].letter_code,
                 date          |-> f[i].date,
                 exchange_rate |-> f[i].exchange_rate] : i \in 1..n } :
              f \in [1..n -> RowValues] } : n \in 0..MaxStoreRows }

\* The startDate and endDate parameters applied, each with the day it names.
DateParams ==
    { [text |-> None, day |-> 0],
      [text |-> Some(Str_20240101), day |-> 20240101],
      [text |-> Some(Str_20240131), day |-> 20240131] }

\* The currency_codes lists applied.
CodeParams == { None, Some(<<>>), Some(<<"USD">>), Some(<<"EUR", "USD">>) }

InitQuery ==
    /\ store \in DrawnStores
    /\ nextId = Cardinality(store) + 1
    /\ S3_ENABLED = TRUE
    /\ bucket = <<>>
    /\ uuids = {}
    /\ links = {}
    /\ deleted = {}
    /\ req = [p \in Slots |-> NoRequest]
    /\ result = [op |-> "none"]

\* The select of get_currency_rates on the store, for one pair of parameters.
QuerySelect ==
    /\ result.op = "none"
    /\ \E startDate \in DateParams, endDate \in DateParams :
         \E scalars \in SelectRates(store,
                          Request(startDate.text, endDate.text, None, None)) :
            result' = [op |-> "select", startDate |-> startDate.day,
                       endDate |-> endDate.day, scalars |-> scalars]
    /\ UNCHANGED <<store, nextId, S3_ENABLED, bucket, uuids, links, deleted, req>>

\* get_latest_rates on the store, for one list of codes.
QueryLatest ==
    /\ result.op = "none"
    /\ \E currency_codes \in CodeParams :
         \E rates \in LatestRates(store, currency_codes) :
            result' = [op |-> "latest", currency_codes |-> currency_codes,
                       rates |-> rates]
    /\ UNCHANGED <<store, nextId, S3_ENABLED, bucket, uuids, links, deleted, req>>

NextQuery == QuerySelect \/ QueryLatest

SpecQuery == InitQuery /\ [][NextQuery]_vars

\* ----------------------------------------------------------------- claims
\* The key of the backup object of a format.
BackupKey(extension) == <<<<"currency_rates_db_backup", 0>>, extension>>

\* The request of slot p has computed its storage key.
HasKey(p) == req[p].key # None

\* The request of slot p has ended with a Response model (an ExportResult).
Responded(p) == req[p].pc = "done" /\ req[p].status = 200 /\ req[p].kind = "GET"

\* C1: any two exports of the same output format publish to the same key, the
\* fixed name currency_rates_db_backup plus the extension, when both are
\* backups, and to two distinct keys when neither is; and the object under the
\* key of an export that is not a backup is the one that export put there, not
\* overwritten by another.
C1_KeyPolicy ==
    \A p, q \in Slots :
        (HasKey(p) /\ HasKey(q) /\ req[p].r.outputFormat = req[q].r.outputFormat)
        => /\ (req[p].r.isBackup /\ req[q].r.isBackup)
                => /\ req[p].key = req[q].key
                   /\ The(req[p].key) = BackupKey(req[p].r.outputFormat)
           /\ (~req[p].r.isBackup /\ ~req[q].r.isBackup /\ p # q)
                => /\ req[p].key # req[q].key
                   /\ The(req[p].key) \in DOMAIN bucket
                        => bucket[The(req[p].key)].Body.rows = req[p].scalars

\* C1 happens: two exports of one format that are not backups are in flight at
\* once, both with their object put and their link not yet generated.
C1_Witness ==
    \E p, q \in Slots :
        /\ p # q
        /\ req[p].pc = "url" /\ req[q].pc = "url"
        /\ req[p].r.outputFormat = req[q].r.outputFormat
        /\ The(req[p].key) \in DOMAIN bucket /\ The(req[q].key) \in DOMAIN bucket

\* C2: get_latest_rates returns exactly one record per requested code that has
\* a stored record (per stored code when no code is requested), never more than
\* one, and the record's date is the latest date stored for the code.
C2_OnePerCode ==
    result.op = "latest" =>
        LET codes == result.currency_codes
            wanted == IF codes = None \/ The(codes) = <<>>
                      THEN StoredCodes(store)
                      ELSE Range(The(codes)) \cap StoredCodes(store)
            rates == result.rates
        IN /\ \A i \in 1..Len(rates) : rates[i].letter_code \in wanted
           /\ \A c \in wanted :
                /\ Cardinality({ i \in 1..Len(rates) : rates[i].letter_code = c }) = 1
                /\ \A i \in 1..Len(rates) :
                     rates[i].letter_code = c =>
                        \E row \in store :
                           /\ row.letter_code = c
                           /\ strftime_Y_m_d(row.date) = rates[i].date
                           /\ \A o \in store :
                                o.letter_code = c => o.date <= row.date

C4_DisabledNoError ==
    \A p \in Slots :
        (~S3_ENABLED /\ req[p].pc = "done" /\ req[p].scalars # <<>>)
        => req[p].status # 500

\* C5: a request whose export is a backup never reaches generate_url, its
\* response carries no link, and no link is ever generated or shortened for a
\* backup key, whether the select returned rows or none.
C5_BackupNoLink ==
    /\ \A p \in Slots :
         (req[p].kind \in {"POST", "GET", "DELETE"} /\ req[p].r.isBackup)
         => /\ req[p].pc # "url"
            /\ req[p].resp # None => The(req[p].resp).url = None
            /\ HasKey(p) => generate_presigned_url(The(req[p].key)) \notin links
    /\ \A l \in links : l[2][1][1] # "currency_rates_db_backup"

\* C5 happens: a GET request with isBackup set has ended after its upload.
C5_Witness ==
    \E p \in Slots :
        /\ req[p].kind = "GET" /\ req[p].r.isBackup /\ req[p].pc = "done"
        /\ req[p].status = 204 /\ req[p].scalars # <<>>
        /\ The(req[p].key) \in DOMAIN bucket

\* C6: the commit of delete_currency_rates removes exactly the stored rows whose
\* id is in the list and no others, and every select that runs afterwards
\* returns none of the rows deleted.
C6_DeleteExact ==
    [][ \A p \in Slots :
          /\ (req[p].kind = "DELETE" /\ req[p].pc = "commit" /\ req'[p].pc = "select")
             => store' = { row \in store :
                             \A i \in 1..Len(req[p].delete_ids) :
                                req[p].delete_ids[i] # row.id }
          /\ (req[p].pc = "select" /\ req'[p].pc # "select")
             => \A i \in 1..Len(req'[p].scalars) : req'[p].scalars[i] \notin deleted
      ]_vars

\* C6 happens: a DELETE has removed a row that was stored and left another, and
\* the select after it has returned the rows left.
C6_Witness ==
    \E q \in Slots :
        /\ req[q].kind = "DELETE" /\ req[q].pc = "upload"
        /\ req[q].scalars # <<>>
        /\ \E row \in deleted : row.id \in Range(req[q].delete_ids)

\* C7: the range query returns exactly the stored records dated on or after
\* startDate and on or before endDate (an absent bound is open), each once,
\* ordered by date and then by letter code, both ascending.
C7_DateRange ==
    result.op = "select" =>
        LET s == result.scalars
            lo == result.startDate
            hi == result.endDate
        IN /\ Range(s) = { row \in store : /\ lo # 0 => row.date >= lo
                                           /\ hi # 0 => row.date <= hi }
           /\ Len(s) = Cardinality(Range(s))
           /\ \A i, j \in 1..Len(s) :
                i < j => \/ s[i].date < s[j].date
                         \/ /\ s[i].date = s[j].date
                            /\ CodeRank(s[i].letter_code) <= CodeRank(s[j].letter_code)

\* C7 happens: with both bounds given, rows dated on the start bound of both
\* codes are returned and a row outside the range is left out.
C7_Witness ==
    /\ result.op = "select"
    /\ result.startDate = 20240101 /\ result.endDate = 20240131
    /\ Len(result.scalars) = 2
    /\ result.scalars[1].date = 20240101
    /\ result.scalars[1].letter_code # result.scalars[2].letter_code
    /\ Cardinality(store) = 3

\* C8: in the POST and DELETE flows the backup export is invoked only after the
\* mutation is committed (the rows added are in the store, with the next ids;
\* the rows deleted are gone), and a step in which the backup export fails
\* leaves the store as it is.
C8_CommitThenBackup ==
    [][ \A p \in Slots :
          /\ (req'[p].kind = "POST" /\ req'[p].pc = "select" /\ req[p].pc # "select")
             => /\ req[p].pc = "commit"
                /\ \A i \in 1..Len(req[p].rates) :
                     [id            |-> nextId + i - 1,
                      letter_code   |-> req[p].rates[i].letter_code,
                      date          |-> req[p].rates[i].date,
                      exchange_rate |-> req[p].rates[i].exchange_rate] \in store'
                /\ store \subseteq store'
          /\ (req'[p].kind = "DELETE" /\ req'[p].pc = "select" /\ req[p].pc # "select")
             => /\ req[p].pc = "commit"
                /\ \A row \in store' : row.id \notin Range(req[p].delete_ids)
          /\ (req[p].kind \in {"POST", "DELETE"} /\ req[p].status = 0
                /\ req'[p].status = 500)
             => /\ req[p].pc = "upload"
                /\ store' = store
      ]_vars

\* C8 happens: a POST has ended in a server error and the row it added is in
\* the store.
C8_Witness ==
    \E p \in Slots :
        /\ req[p].kind = "POST" /\ req[p].pc = "done" /\ req[p].status = 500
        /\ \E row \in store :
              /\ row.id = nextId - 1
              /\ row.letter_code = req[p].rates[1].letter_code
              /\ row.date = req[p].rates[1].date

\* C9: with storage enabled and no failure, when every POST and DELETE request
\* has ended and one at least has succeeded, the object under the backup key
\* encodes exactly the rows of the store (no object standing for no row).  The
\* runs in which a GET request sets isBackup are left aside.
C9_BackupFresh ==
    ( /\ S3_ENABLED
      /\ \A p \in Slots : req[p].status # 500
      /\ \A p \in Slots : req[p].kind = "GET" => ~req[p].r.isBackup
      /\ \A p \in Slots : req[p].kind \in {"POST", "DELETE"} => req[p].pc = "done"
      /\ \E p \in Slots : req[p].kind \in {"POST", "DELETE"}
                          /\ req[p].status \in {201, 204} )
    => IF BackupKey("parquet") \in DOMAIN bucket
       THEN Range(bucket[BackupKey("parquet")].Body.rows) = store
       ELSE store = {}

\* C10: no step of a GET /currency-rates request creates or overwrites an
\* object under the backup key of any format.
C10_GetKeepsBackup ==
    [][ \A p \in Slots :
          (req[p].kind = "GET" /\ req[p].pc = "upload" /\ req'[p].pc # "upload")
          => \A m \in Makers :
               LET k == BackupKey(m.extension)
               IN /\ k \in DOMAIN bucket' <=> k \in DOMAIN bucket
                  /\ k \in DOMAIN bucket => bucket'[k] = bucket[k]
      ]_vars

=============================================================================
